---- MODULE Spec2Model ----
(***************************************************************************)
(* Intcode interpreter of src/aoc_problems/day_09.rs: Instruction::new,    *)
(* Program (get_input, set_input, get_parameter, set_parameter,            *)
(* run_program).                                                           *)
(*                                                                         *)
(* Memory cells are i64 and instruction words are usize; both exceed the   *)
(* integers of the model checker, so a value is a sign and a magnitude in  *)
(* little-endian limbs of radix 10^4, without leading zero limbs.          *)
(***************************************************************************)
EXTENDS Integers, Sequences, FiniteSets, TLC

\* ------------------------------------------------------------------------
\* Wide integers
\* ------------------------------------------------------------------------
Radix == 10000

RECURSIVE Trim(_)
Trim(m) ==
    IF m = <<>> THEN <<>>
    ELSE IF m[Len(m)] = 0 THEN Trim(SubSeq(m, 1, Len(m) - 1))
    ELSE m

Limb(m, i) == IF i <= Len(m) THEN m[i] ELSE 0

MaxOf(a, b) == IF a >= b THEN a ELSE b

RECURSIVE MagCmpFrom(_, _, _)
MagCmpFrom(a, b, i) ==
    IF i = 0 THEN 0
    ELSE IF Limb(a, i) < Limb(b, i) THEN -1
    ELSE IF Limb(a, i) > Limb(b, i) THEN 1
    ELSE MagCmpFrom(a, b, i - 1)

\* -1, 0, 1 as a < b, a = b, a > b
MagCmp(a, b) == MagCmpFrom(a, b, MaxOf(Len(a), Len(b)))

RECURSIVE MagAddFrom(_, _, _, _)
MagAddFrom(a, b, i, carry) ==
    IF i > Len(a) /\ i > Len(b)
    THEN IF carry = 0 THEN <<>> ELSE <<carry>>
    ELSE LET s == Limb(a, i) + Limb(b, i) + carry
         IN  <<s % Radix>> \o MagAddFrom(a, b, i + 1, s \div Radix)

MagAdd(a, b) == Trim(MagAddFrom(a, b, 1, 0))

RECURSIVE MagSubFrom(_, _, _, _)
MagSubFrom(a, b, i, borrow) ==
    IF i > Len(a) THEN <<>>
    ELSE LET d == Limb(a, i) - Limb(b, i) - borrow
         IN  IF d < 0
             THEN <<d + Radix>> \o MagSubFrom(a, b, i + 1, 1)
             ELSE <<d>> \o MagSubFrom(a, b, i + 1, 0)

\* a - b for a >= b
MagSub(a, b) == Trim(MagSubFrom(a, b, 1, 0))

RECURSIVE MagScaleFrom(_, _, _, _)
MagScaleFrom(a, k, i, carry) ==
    IF i > Len(a)
    THEN IF carry = 0 THEN <<>> ELSE <<carry>>
    ELSE LET p == a[i] * k + carry
         IN  <<p % Radix>> \o MagScaleFrom(a, k, i + 1, p \div Radix)

RECURSIVE MagMulFrom(_, _, _)
MagMulFrom(a, b, j) ==
    IF j > Len(b) THEN <<>>
    ELSE MagAdd(MagScaleFrom(a, b[j], 1, 0),
                <<0>> \o MagMulFrom(a, b, j + 1))

MagMul(a, b) == Trim(MagMulFrom(a, b, 1))

Big(neg, mag) == [neg |-> neg /\ mag # <<>>, mag |-> mag]

RECURSIVE NatMag(_)
NatMag(n) == IF n = 0 THEN <<>> ELSE <<n % Radix>> \o NatMag(n \div Radix)

FromInt(n) == IF n < 0 THEN Big(TRUE, NatMag(0 - n)) ELSE Big(FALSE, NatMag(n))

RECURSIVE MagInt(_)
MagInt(m) == IF m = <<>> THEN 0 ELSE m[1] + Radix * MagInt(Tail(m))

\* defined for values the model checker's integers hold
ToInt(x) == IF x.neg THEN 0 - MagInt(x.mag) ELSE MagInt(x.mag)

Zero == FromInt(0)
One == FromInt(1)

BigNeg(x) == Big(~x.neg, x.mag)

BigAdd(x, y) ==
    IF x.neg = y.neg THEN Big(x.neg, MagAdd(x.mag, y.mag))
    ELSE IF MagCmp(x.mag, y.mag) >= 0 THEN Big(x.neg, MagSub(x.mag, y.mag))
    ELSE Big(y.neg, MagSub(y.mag, x.mag))

BigSub(x, y) == BigAdd(x, BigNeg(y))

BigMul(x, y) == Big(x.neg # y.neg, MagMul(x.mag, y.mag))

BigLt(x, y) ==
    IF x.neg # y.neg THEN x.neg
    ELSE IF x.neg THEN MagCmp(x.mag, y.mag) > 0
    ELSE MagCmp(x.mag, y.mag) < 0

BigLe(x, y) == x = y \/ BigLt(x, y)

\* 2^63 and 2^64
Two63 == Big(FALSE, <<5808, 5477, 368, 3372, 922>>)
Two64 == Big(FALSE, <<1616, 955, 737, 6744, 1844>>)
I64Max == BigSub(Two63, One)
I64Min == BigNeg(Two63)

FitsI64(x) == BigLe(I64Min, x) /\ BigLe(x, I64Max)

\* `v as usize` taken as the magnitude of v
AsUsizeMagnitude(v) == Big(FALSE, v.mag)

\* `v as usize` of an i64 v on a 64-bit target: the two's complement bits
AsUsize(v) == IF v.neg THEN BigAdd(Two64, v) ELSE v

\* quotient and remainder of a magnitude by a divisor below Radix
RECURSIVE MagDivFrom(_, _, _, _)
MagDivFrom(m, d, i, rem) ==
    IF i = 0 THEN [quot |-> <<>>, rem |-> rem]
    ELSE LET cur  == rem * Radix + m[i]
             rest == MagDivFrom(m, d, i - 1, cur % d)
         IN  [quot |-> rest.quot \o <<cur \div d>>, rem |-> rest.rem]

MagDiv(m, d) == Trim(MagDivFrom(m, d, Len(m), 0).quot)
MagMod(m, d) == MagDivFrom(m, d, Len(m), 0).rem

\* m mod 2^64 for m < 2^(65+t), with p = 2^(64+t)
RECURSIVE MagReduce(_, _, _)
MagReduce(m, p, t) ==
    IF t < 0 THEN m
    ELSE IF MagCmp(m, p) >= 0
    THEN MagReduce(MagSub(m, p), MagDiv(p, 2), t - 1)
    ELSE MagReduce(m, MagDiv(p, 2), t - 1)

\* the i64 with the bits of the u64 magnitude u
FromBits(u) ==
    IF MagCmp(u, Two63.mag) >= 0
    THEN Big(TRUE, MagSub(Two64.mag, u))
    ELSE Big(FALSE, u)

\* the bits of the value of sign neg and magnitude r < 2^64
ToBits(neg, r) == IF neg /\ r # <<>> THEN MagSub(Two64.mag, r) ELSE r

\* the i64 a wrapping operation leaves for the exact result x, |x| < 2^128
Wrap64(x) ==
    FromBits(ToBits(x.neg,
                    MagReduce(x.mag, MagMul(Two64.mag, Two63.mag), 63)))

\* decimal digits of a machine-size number, most significant first
RECURSIVE NatDigits(_)
NatDigits(n) == IF n < 10 THEN <<n>> ELSE NatDigits(n \div 10) \o <<n % 10>>

LimbDigits(l) == <<l \div 1000, (l \div 100) % 10, (l \div 10) % 10, l % 10>>

RECURSIVE LowLimbDigits(_, _)
LowLimbDigits(m, i) ==
    IF i = 0 THEN <<>> ELSE LimbDigits(m[i]) \o LowLimbDigits(m, i - 1)

\* usize::to_string followed by chars().map(to_digit)
ToDigits(m) ==
    IF m = <<>> THEN <<0>>
    ELSE NatDigits(m[Len(m)]) \o LowLimbDigits(m, Len(m) - 1)

\* the digits left most significant first
NotReversed(s) == s

\* Vec::reverse
Reverse(s) == [i \in 1..Len(s) |-> s[Len(s) + 1 - i]]

\* Vec::resize(n, fill): truncates a longer vector, pads a shorter one
Resize(v, n, fill) ==
    IF n <= Len(v) THEN SubSeq(v, 1, n)
    ELSE v \o [i \in 1..(n - Len(v)) |-> fill]

\* ------------------------------------------------------------------------
\* Instruction decoder
\* ------------------------------------------------------------------------
Position == "Position"
Immediate == "Immediate"
Relative == "Relative"

ValidOpcodes == {1, 2, 3, 4, 5, 6, 7, 8, 9, 99}

\* the match of Instruction::new on the opcode; -1 is the error arm
params_length(opcode) ==
    CASE opcode \in {1, 2, 7, 8} -> 3
      [] opcode \in {3, 4, 9}    -> 1
      [] opcode \in {5, 6}       -> 2
      [] opcode = 99             -> 0
      [] OTHER                   -> -1

\* every digit other than 1 and 2 taken for Position
ModeOfDigitLenient(d) ==
    CASE d = 1 -> Immediate
      [] d = 2 -> Relative
      [] OTHER -> Position

\* the match on a digit; "error" is the Err arm
ModeOfDigit(d) ==
    CASE d = 0 -> Position
      [] d = 1 -> Immediate
      [] d = 2 -> Relative
      [] OTHER -> "error"

Instruction(opcode, parameters) ==
    [ok |-> TRUE, err |-> "", opcode |-> opcode, parameters |-> parameters]

DecodeError(opcode, err) ==
    [ok |-> FALSE, err |-> err, opcode |-> opcode, parameters |-> <<>>]

\* the collect() of the mapped digits into a Result
Collected(opcode, parameters) ==
    IF \E i \in 1..Len(parameters) : parameters[i] = "error"
    THEN DecodeError(opcode, "Cannot read parameter digit")
    ELSE Instruction(opcode, parameters)

\* Instruction::new from the match on the opcode onwards
Decoded(opcode, digit_list, n) ==
    IF n < 0
    THEN DecodeError(opcode, "Cannot read opcode")
    ELSE Collected(opcode,
                   [i \in 1..n |-> ModeOfDigit(Resize(digit_list, n, 0)[i])])

\* the opcode taken as the last digit alone
Instruction_new_mod10(number) ==
    Decoded(MagMod(number.mag, 10),
            Reverse(ToDigits(MagDiv(number.mag, 100))),
            params_length(MagMod(number.mag, 10)))

\* Instruction::new(number) for a usize number
Instruction_new(number) ==
    Decoded(MagMod(number.mag, 100),
            Reverse(ToDigits(MagDiv(number.mag, 100))),
            params_length(MagMod(number.mag, 100)))

\* ------------------------------------------------------------------------
\* Program
\* ------------------------------------------------------------------------
VARIABLES memory, first_input, second_input, current_input, pointer_idx,
          relative_base,
          pc,        \* "idle": no call in progress, "running": inside the
                     \* loop of run_program, "panicked": the thread unwound
          ret,       \* what the last call of run_program returned
          output,    \* the values returned as Some(v), in order
          consumed,  \* the values get_input returned, in order
          image,     \* the memory image Program::new was given
          steps      \* iterations of the loop of run_program so far

\* Permutations and its caller
VARIABLES perms,            \* the Permutations struct: idxs, swaps and i
          item,             \* what the last call of next returned
          collected         \* the items next has returned, in order

\* _q2
VARIABLES permutations,     \* the permutations the for loop has not taken
          Programs, amp_idx, output_signal,
          signal,           \* the local `input` of _q2
          max_signal,
          at,               \* the position of _q2: "for", "loop", "call",
                            \* "returned", "failed", "perms" (inside
                            \* get_permutations) or "off"
          resumes,          \* the calls of run_program of this trial: the
                            \* amplifier, the input set, what was returned
          trials            \* the phase settings of the trials that ended
                            \* and the last output of amplifier 4 in each

fields == <<memory, first_input, second_input, current_input, pointer_idx,
            relative_base>>
iterator == <<perms, item, collected>>
search == <<permutations, Programs, amp_idx, output_signal, signal,
            max_signal, at, resumes, trials>>
vars == <<memory, first_input, second_input, current_input, pointer_idx,
          relative_base, pc, ret, output, consumed, image, steps,
          iterator, search>>

\* bounds of the exploration
MaxSteps == 90
MaxMem == 110

USizeMax == Big(FALSE, <<1615, 955, 737, 6744, 1844>>)
\* a Vec<i64> holds at most isize::MAX bytes: 2^60 - 1 elements
VecMaxLen == Big(FALSE, <<6975, 684, 5046, 2921, 115>>)

Self ==
    [memory |-> memory, first_input |-> first_input,
     second_input |-> second_input, current_input |-> current_input,
     pointer_idx |-> pointer_idx, relative_base |-> relative_base]

\* Program::new
Program_new(mem, first, second) ==
    [memory |-> mem, first_input |-> first, second_input |-> second,
     current_input |-> 1, pointer_idx |-> Zero, relative_base |-> Zero]

\* an i64 operation that overflows panics in a build with overflow checks
\* and wraps in a build without
Checked(x) ==
    IF FitsI64(x) THEN {[st |-> "ok", val |-> x]}
    ELSE {[st |-> "panic", val |-> Zero], [st |-> "ok", val |-> Wrap64(x)]}

\* the resize of get_parameter and set_parameter without the `if` around it
GrowAlways(mem, idx) ==
    IF idx = USizeMax \/ BigLe(VecMaxLen, idx)
    THEN [st |-> "panic", memory |-> mem]
    ELSE IF BigLe(FromInt(MaxMem), idx)
    THEN [st |-> "capped", memory |-> mem]
    ELSE [st |-> "ok", memory |-> Resize(mem, ToInt(idx) + 1, Zero)]

\* `if self.memory.len() < idx+1 { self.memory.resize(idx+1, 0) }` and the
\* indexing memory[idx] that follows it, for a usize idx
Grow(mem, idx) ==
    IF idx = USizeMax
    THEN [st |-> "panic", memory |-> mem]
    ELSE IF BigLt(idx, FromInt(Len(mem)))
    THEN [st |-> "ok", memory |-> mem]
    ELSE IF BigLe(VecMaxLen, idx)
    THEN [st |-> "panic", memory |-> mem]
    ELSE IF BigLe(FromInt(MaxMem), idx)
    THEN [st |-> "capped", memory |-> mem]
    ELSE [st |-> "ok", memory |-> Resize(mem, ToInt(idx) + 1, Zero)]

\* memory[idx] on a vector the index is known to be inside
At(mem, idx) == mem[ToInt(idx) + 1]

\* get_input without `self.current_input += 1`
get_input_stuck(self) ==
    CASE self.current_input = 1 ->
            [st |-> "ok", self |-> self, val |-> self.first_input]
      [] self.current_input = 2 ->
            [st |-> "ok", self |-> self, val |-> self.second_input]
      [] OTHER ->
            [st |-> "err", self |-> self, val |-> Zero]

\* Program::get_input
get_input(self) ==
    CASE self.current_input = 1 ->
            [st |-> "ok", self |-> [self EXCEPT !.current_input = 2],
             val |-> self.first_input]
      [] self.current_input = 2 ->
            [st |-> "ok", self |-> self, val |-> self.second_input]
      [] OTHER ->
            [st |-> "err", self |-> self, val |-> Zero]

\* Program::set_input
set_input(self, input) == [self EXCEPT !.second_input = input]

\* the value at idx of the vector Grow left
Grown(self, g, idx) ==
    [st   |-> g.st, self |-> [self EXCEPT !.memory = g.memory],
     val  |-> IF g.st = "ok" THEN At(g.memory, idx) ELSE Zero]

ReadAt(self, idx) == Grown(self, Grow(self.memory, idx), idx)

\* the address of a Position or Relative parameter, as an i64
Address(self, parameter_form, val) ==
    IF parameter_form = Relative
    THEN Checked(BigAdd(self.relative_base, val))
    ELSE {[st |-> "ok", val |-> val]}

\* get_parameter with the Immediate value cut to its low 32 bits
get_parameter_narrow(self, parameter_form, val) ==
    IF parameter_form = Immediate
    THEN {[st |-> "ok", self |-> self,
           val |-> Big(val.neg, MagReduce(val.mag, Two63.mag, 31))]}
    ELSE {IF a.st = "ok" THEN ReadAt(self, AsUsize(a.val))
                         ELSE [st |-> "panic", self |-> self, val |-> Zero]
            : a \in Address(self, parameter_form, val)}

\* Program::get_parameter: the outcomes of one call
get_parameter(self, parameter_form, val) ==
    IF parameter_form = Immediate
    THEN {[st |-> "ok", self |-> self, val |-> val]}
    ELSE {IF a.st = "ok" THEN ReadAt(self, AsUsize(a.val))
                         ELSE [st |-> "panic", self |-> self, val |-> Zero]
            : a \in Address(self, parameter_form, val)}

Assigned(self, g, idx, val) ==
    [st   |-> g.st,
     self |-> IF g.st = "ok"
              THEN [self EXCEPT !.memory =
                        [g.memory EXCEPT ![ToInt(idx) + 1] = val]]
              ELSE self]

\* Program::set_parameter
set_parameter(self, idx, val) ==
    Assigned(self, Grow(self.memory, idx), idx, val)

\* ------------------------------------------------------------------------
\* One iteration of the loop of run_program
\* ------------------------------------------------------------------------
Out(kind, self, val) == [kind |-> kind, self |-> self, val |-> val]

\* self.memory[self.pointer_idx + k] for a pointer inside memory
Fetch(self, k) ==
    IF ToInt(self.pointer_idx) + k < Len(self.memory)
    THEN [st |-> "ok", val |-> self.memory[ToInt(self.pointer_idx) + k + 1]]
    ELSE [st |-> "panic", val |-> Zero]

Fetched(self, parameter_form, f) ==
    IF f.st # "ok"
    THEN {[st |-> "panic", self |-> self, val |-> Zero]}
    ELSE get_parameter(self, parameter_form, f.val)

\* self.get_parameter(current_instruction.parameters[k-1],
\*                    self.memory[self.pointer_idx+k])
Read(self, ins, k) == Fetched(self, ins.parameters[k], Fetch(self, k))

\* input_1 (and input_2): the parameters k..n read in this order, each on
\* the memory the one before it left
RECURSIVE Inputs(_, _, _, _)
Inputs(self, ins, k, n) ==
    IF k > n THEN {[st |-> "ok", self |-> self, vals |-> <<>>]}
    ELSE UNION {
           IF r.st # "ok"
           THEN {[st |-> r.st, self |-> r.self, vals |-> <<>>]}
           ELSE {[st |-> t.st, self |-> t.self, vals |-> <<r.val>> \o t.vals]
                   : t \in Inputs(r.self, ins, k + 1, n)}
           : r \in Read(self, ins, k) }

\* how many parameters an opcode reads through get_parameter
InputCount(opcode) ==
    CASE opcode \in {1, 2, 5, 6, 7, 8} -> 2
      [] opcode = 9                    -> 1
      [] OTHER                         -> 0

Advance(self, k) ==
    [self EXCEPT !.pointer_idx = BigAdd(self.pointer_idx, FromInt(k))]

Written(w, k, val) ==
    IF w.st # "ok" THEN Out(w.st, w.self, Zero)
    ELSE Out("continue", Advance(w.self, k), val)

\* self.set_parameter(self.memory[self.pointer_idx+n] as usize, value)? and
\* self.pointer_idx += n+1, for the operand f and the outcomes cs of
\* computing the value
StoreResult(self, f, cs, n) ==
    IF f.st # "ok" THEN {Out("panic", self, Zero)}
    ELSE {IF c.st # "ok" THEN Out("panic", self, Zero)
          ELSE Written(set_parameter(self, AsUsize(f.val), c.val), n + 1, c.val)
            : c \in cs}

\* the value opcodes 1, 2, 7 and 8 store
Result(opcode, input_1, input_2) ==
    CASE opcode = 1 -> Checked(BigAdd(input_1, input_2))
      [] opcode = 2 -> Checked(BigMul(input_1, input_2))
      [] opcode = 7 ->
            {[st |-> "ok", val |-> IF BigLt(input_1, input_2) THEN One ELSE Zero]}
      [] opcode = 8 ->
            {[st |-> "ok", val |-> IF input_1 = input_2 THEN One ELSE Zero]}

\* opcode 3, for the operand f and the result g of get_input
StoreInput(self, f, g) ==
    IF f.st # "ok" THEN {Out("panic", self, Zero)}
    ELSE IF g.st # "ok" THEN {Out("err", g.self, Zero)}
    ELSE StoreResult(g.self, f, {[st |-> "ok", val |-> g.val]}, 1)

\* opcode 4 without `self.pointer_idx += 2`
ReturnOutputInPlace(self, f) ==
    IF f.st # "ok" THEN {Out("panic", self, Zero)}
    ELSE {Out("some", r.self, r.val)
            : r \in get_parameter(self, Immediate, f.val)}

\* opcode 4, for the operand f: the pointer moves, then
\* get_parameter(Parameter::Immediate, output_idx) is returned
ReturnOutput(self, f) ==
    IF f.st # "ok" THEN {Out("panic", self, Zero)}
    ELSE {Out("some", r.self, r.val)
            : r \in get_parameter(Advance(self, 2), Immediate, f.val)}

\* opcodes 5 and 6 jumping whatever input_1 is
JumpAlways(self, input_1, input_2, if_true) ==
    {Out("continue", [self EXCEPT !.pointer_idx = AsUsize(input_2)], Zero)}

\* opcodes 5 (if_true) and 6 (~if_true)
Jump(self, input_1, input_2, if_true) ==
    IF (input_1 # Zero) = if_true
    THEN {Out("continue", [self EXCEPT !.pointer_idx = AsUsize(input_2)], Zero)}
    ELSE {Out("continue", Advance(self, 3), Zero)}

\* opcode 9 with `=` for `+=`
SetRelativeBase(self, input_1) ==
    {Out("continue", Advance([self EXCEPT !.relative_base = input_1], 2),
         Zero)}

\* opcode 9
AdjustRelativeBase(self, input_1) ==
    {IF c.st # "ok" THEN Out("panic", self, Zero)
     ELSE Out("continue", Advance([self EXCEPT !.relative_base = c.val], 2),
              Zero)
       : c \in Checked(BigAdd(self.relative_base, input_1))}

\* opcode 99 stepping over the instruction before it breaks
BreakAdvance(self) == {Out("none", Advance(self, 1), Zero)}

\* opcode 99: break, then Ok(None)
Break(self) == {Out("none", self, Zero)}

\* the arm of the match on the opcode, after its inputs were read
Arm(opcode, self, vals) ==
    CASE opcode \in {1, 2, 7, 8} ->
            StoreResult(self, Fetch(self, 3),
                        Result(opcode, vals[1], vals[2]), 3)
      [] opcode = 3  -> StoreInput(self, Fetch(self, 1), get_input(self))
      [] opcode = 4  -> ReturnOutput(self, Fetch(self, 1))
      [] opcode = 5  -> Jump(self, vals[1], vals[2], TRUE)
      [] opcode = 6  -> Jump(self, vals[1], vals[2], FALSE)
      [] opcode = 9  -> AdjustRelativeBase(self, vals[1])
      [] opcode = 99 -> Break(self)
      [] OTHER       -> {Out("err", self, Zero)}

Execute(self, ins) ==
    IF ~ins.ok THEN {Out("err", self, Zero)}
    ELSE UNION {
           IF i.st # "ok" THEN {Out(i.st, i.self, Zero)}
           ELSE Arm(ins.opcode, i.self, i.vals)
           : i \in Inputs(self, ins, 1, InputCount(ins.opcode)) }

PointerInside(self) == BigLt(self.pointer_idx, FromInt(Len(self.memory)))

\* Instruction::new(self.memory[self.pointer_idx] as usize)
Decode(self) == Instruction_new(AsUsize(At(self.memory, self.pointer_idx)))

\* the outcomes of one iteration: "continue" (next iteration), "some" (return
\* Ok(Some(val))), "none" (return Ok(None)), "err" (return Err), "panic",
\* and "capped" (memory would grow beyond MaxMem)
Exec(self) ==
    IF ~PointerInside(self) THEN {Out("panic", self, Zero)}
    ELSE Execute(self, Decode(self))

\* the opcode the iteration at the current pointer executes, 0 if none
OpcodeOf(inside, ins) == IF inside /\ ins.ok THEN ins.opcode ELSE 0

Opcode == OpcodeOf(PointerInside(Self), Decode(Self))

RetNew == [kind |-> "new", val |-> Zero]
RetSome(v) == [kind |-> "some", val |-> v]
RetNone == [kind |-> "none", val |-> Zero]
RetErr == [kind |-> "err", val |-> Zero]

Store(self) ==
    /\ memory' = self.memory
    /\ first_input' = self.first_input
    /\ second_input' = self.second_input
    /\ current_input' = self.current_input
    /\ pointer_idx' = self.pointer_idx
    /\ relative_base' = self.relative_base

\* an iteration that goes on to the next iteration
Continue ==
    /\ pc = "running"
    /\ steps < MaxSteps
    /\ \E o \in Exec(Self) :
          /\ o.kind = "continue"
          /\ Store(o.self)
          /\ consumed' = IF Opcode = 3 THEN Append(consumed, o.val)
                                       ELSE consumed
    /\ steps' = steps + 1
    /\ UNCHANGED <<pc, ret, output, image,
                 iterator, search>>

Add ==
    /\ Opcode = 1
    /\ Continue

Mul ==
    /\ Opcode = 2
    /\ Continue

Input ==
    /\ Opcode = 3
    /\ Continue

JumpIfTrue ==
    /\ Opcode = 5
    /\ Continue

JumpIfFalse ==
    /\ Opcode = 6
    /\ Continue

LessThan ==
    /\ Opcode = 7
    /\ Continue

Equals ==
    /\ Opcode = 8
    /\ Continue

AdjustBase ==
    /\ Opcode = 9
    /\ Continue

\* opcode 4: return Ok(Some(v))
Output ==
    /\ pc = "running"
    /\ steps < MaxSteps
    /\ \E o \in Exec(Self) :
          /\ o.kind = "some"
          /\ Store(o.self)
          /\ ret' = RetSome(o.val)
          /\ output' = Append(output, o.val)
    /\ pc' = "idle"
    /\ steps' = steps + 1
    /\ UNCHANGED <<consumed, image,
                 iterator, search>>

\* opcode 99: break, return Ok(None)
Halt ==
    /\ pc = "running"
    /\ steps < MaxSteps
    /\ \E o \in Exec(Self) :
          /\ o.kind = "none"
          /\ Store(o.self)
    /\ ret' = RetNone
    /\ pc' = "idle"
    /\ steps' = steps + 1
    /\ UNCHANGED <<output, consumed, image,
                 iterator, search>>

\* the `?` of run_program: Instruction::new or get_input returned Err
ReturnErr ==
    /\ pc = "running"
    /\ steps < MaxSteps
    /\ \E o \in Exec(Self) :
          /\ o.kind = "err"
          /\ Store(o.self)
    /\ ret' = RetErr
    /\ pc' = "idle"
    /\ steps' = steps + 1
    /\ UNCHANGED <<output, consumed, image,
                 iterator, search>>

\* an index out of bounds, a vector too long to allocate, or an overflow in
\* a build that checks for it
Panic ==
    /\ pc = "running"
    /\ steps < MaxSteps
    /\ \E o \in Exec(Self) :
          /\ o.kind = "panic"
          /\ Store(o.self)
    /\ pc' = "panicked"
    /\ steps' = steps + 1
    /\ UNCHANGED <<ret, output, consumed, image,
                 iterator, search>>

\* the caller calls run_program; it makes no call after Ok(None) or Err
\* (while let Some(result) = program.run_program()? { ... })
RunProgram ==
    /\ pc = "idle"
    /\ ret.kind \in {"new", "some"}
    /\ pc' = "running"
    /\ UNCHANGED <<fields, ret, output, consumed, image, steps,
                 iterator, search>>

\* the values the caller passes to set_input
InputValues == {Zero, FromInt(5)}

\* the caller calls set_input between two calls of run_program
SetInput ==
    /\ pc = "idle"
    /\ ret.kind \in {"new", "some"}
    /\ \E v \in InputValues :
          /\ v # second_input
          /\ Store(set_input(Self, v))
    /\ UNCHANGED <<pc, ret, output, consumed, image, steps,
                 iterator, search>>

\* ------------------------------------------------------------------------
\* Permutations
\* ------------------------------------------------------------------------
\* bound of the exploration: the sizes 0..MaxSize
MaxSize == 5

\* the struct literal of permutations(size) and of get_permutations(size)
Permutations_new(size) ==
    [idxs  |-> [k \in 1..size |-> k - 1],
     swaps |-> [k \in 1..size |-> 0],
     i     |-> 0]

None == [kind |-> "none", val |-> <<>>]
Some(v) == [kind |-> "some", val |-> v]

\* the loop of next: it ends in `return None` or in `break`
RECURSIVE Skip(_)
Skip(self) ==
    IF self.i >= Len(self.swaps) THEN [st |-> "none", self |-> self]
    ELSE IF self.swaps[self.i + 1] < self.i THEN [st |-> "break", self |-> self]
    ELSE Skip([self EXCEPT !.swaps[self.i + 1] = 0, !.i = self.i + 1])

\* Vec::swap
Swap(v, a, b) == [v EXCEPT ![a + 1] = v[b + 1], ![b + 1] = v[a + 1]]

\* the swap with index 0 after every break
SwappedWithFirst(self) ==
    [self EXCEPT !.idxs = Swap(self.idxs, self.i, 0),
                 !.swaps[self.i + 1] = self.swaps[self.i + 1] + 1]

\* self.idxs.swap(self.i, (self.i & 1) * self.swaps[self.i]);
\* self.swaps[self.i] += 1
Swapped(self) ==
    [self EXCEPT !.idxs = Swap(self.idxs, self.i,
                               (self.i % 2) * self.swaps[self.i + 1]),
                 !.swaps[self.i + 1] = self.swaps[self.i + 1] + 1]

\* self.i = 1; Some(self.idxs.clone())
Yield(self) == [self |-> [self EXCEPT !.i = 1], item |-> Some(self.idxs)]

AfterLoop(l) ==
    IF l.st = "none" THEN [self |-> l.self, item |-> None]
    ELSE Yield(Swapped(l.self))

\* Permutations::next
Permutations_next(self) ==
    IF self.i > 0 THEN AfterLoop(Skip(self)) ELSE Yield(self)

\* no iterator is in use
IteratorOff ==
    /\ perms = Permutations_new(0)
    /\ item = None
    /\ collected = <<>>

\* _q2 is not running
SearchOff ==
    /\ permutations = <<>>
    /\ Programs = <<>>
    /\ amp_idx = 0
    /\ output_signal = Zero
    /\ signal = Zero
    /\ max_signal = Zero
    /\ at = "off"
    /\ resumes = <<>>
    /\ trials = <<>>

\* no Program is in use
ProgramOff ==
    /\ memory = <<>>
    /\ first_input = Zero
    /\ second_input = Zero
    /\ current_input = 1
    /\ pointer_idx = Zero
    /\ relative_base = Zero
    /\ pc = "idle"
    /\ ret = [kind |-> "new", val |-> Zero]
    /\ output = <<>>
    /\ consumed = <<>>
    /\ image = <<>>
    /\ steps = 0

\* a new iterator of one of the sizes
InitPermutations ==
    /\ \E size \in 0..MaxSize : perms = Permutations_new(size)
    /\ item = [kind |-> "new", val |-> <<>>]
    /\ collected = <<>>
    /\ ProgramOff
    /\ SearchOff

\* a call of next that returns Some
NextSome ==
    /\ at \in {"off", "perms"}
    /\ Permutations_next(perms).item.kind = "some"
    /\ perms' = Permutations_next(perms).self
    /\ item' = Permutations_next(perms).item
    /\ collected' = Append(collected, Permutations_next(perms).item.val)
    /\ UNCHANGED <<fields, pc, ret, output, consumed, image, steps, search>>

\* a call of next that returns None
NextNone ==
    /\ Permutations_next(perms).item.kind = "none"
    /\ perms' = Permutations_next(perms).self
    /\ item' = None
    /\ UNCHANGED <<collected, fields, pc, ret, output, consumed, image, steps,
                   search>>

NextPermutations ==
    \/ NextSome
    \/ NextNone

SpecPermutations == InitPermutations /\ [][NextPermutations]_vars

\* ------------------------------------------------------------------------
\* Programs
\* ------------------------------------------------------------------------
Image(ints) == [i \in 1..Len(ints) |-> FromInt(ints[i])]

\* tests::day09_q1_test3
Quine ==
    Image(<<109, 1, 204, -1, 1001, 100, 1, 100, 1008, 100, 16, 101,
            1006, 101, 0, 99>>)

\* tests::day09_q1_test2
WideOutput ==
    Image(<<1102, 34915192, 34915192, 7, 4, 7, 99, 0>>)

\* 1125899906842624 = 2^50
LargeValue == Big(FALSE, <<2624, 684, 8999, 1125>>)

\* tests::day09_q1_test1
LargeImmediate == <<FromInt(104), LargeValue, FromInt(99)>>

\* instruction words: an opcode and the decimal digits above it
OpcodeSample == (0..10) \cup {42, 99}
ModeDigits ==
    {d0 + 10 * d1 + 100 * d2 : d0 \in 0..2, d1 \in 0..2, d2 \in 0..2}
ModeSample == ModeDigits \cup {3, 30, 300, 3000, 1000, 2111}
Words == {op + 100 * m : op \in OpcodeSample, m \in ModeSample}
NegativeWords == {-1, -17, -100, -412}

\* the words with a valid opcode and one valid mode digit per parameter
RECURSIVE Pow10(_)
Pow10(n) == IF n = 0 THEN 1 ELSE 10 * Pow10(n - 1)

PlainWords ==
    UNION {{op + 100 * m : m \in {d \in ModeDigits :
                                      d < Pow10(params_length(op))}}
           : op \in ValidOpcodes}

WordProgram(w, a, b, c) == Image(<<w, a, b, c, 99, 3>>)

\* one instruction with its operands, then a halt
WordPrograms ==
    {WordProgram(w, a, b, c) :
        w \in PlainWords,
        a \in {-1, 0, 4, 8}, b \in {0, 6}, c \in {-1, 5, 9}}
    \cup {WordProgram(w, 4, 0, 5) : w \in Words \cup NegativeWords}

\* opcode 3 several times, with and without outputs in between
InputPrograms ==
    {Image(<<3, 11, 104, 1, 3, 12, 104, 2, 3, 13, 99>>),
     Image(<<3, 7, 3, 8, 3, 9, 99>>),
     Image(<<3, 0, 99>>),
     Image(<<3, -1, 99>>)}

\* the relative base moved twice, then read through
TwoBases == Image(<<109, 2, 109, 3, 22201, 1, 2, 9, 99, 0>>)

\* a relative base of 2, then one instruction that writes, with each mode
\* digit for the operand that names the target
RelativePrograms ==
    {Image(<<109, 2, w, 3, 4, 7, 99, 0, 0, 0>>)
        : w \in {1101, 21101, 21102, 21107, 21108, 22201, 11101}}
    \cup {Image(<<109, 2, w, 5, 99, 0, 0, 0>>) : w \in {3, 203}}
    \cup {TwoBases, Image(<<109, 2, 209, 2, 7, 99>>)}

\* jumps to a negative target
JumpPrograms ==
    {Image(<<1105, 1, -1, 99>>), Image(<<1106, 0, -3, 99>>),
     Image(<<5, 1, 4, 99, -2>>), Image(<<1006, 4, -1, 99, 0>>)}

Two32 == BigMul(FromInt(65536), FromInt(65536))

\* arithmetic that leaves the range of i64
OverflowPrograms ==
    {<<FromInt(1101), I64Max, One, FromInt(5), FromInt(99), Zero>>,
     <<FromInt(1102), Two32, Two32,
       FromInt(5), FromInt(104), FromInt(5), FromInt(99)>>,
     <<FromInt(109), I64Max, FromInt(109), One, FromInt(99)>>,
     <<FromInt(109), I64Max, FromInt(201), One, Zero, Zero, FromInt(99)>>,
     <<FromInt(109), I64Min, FromInt(201), I64Min, Zero, FromInt(7),
       FromInt(99), Zero>>}

Setups ==
    {<<Quine, FromInt(1), FromInt(1)>>,
     <<WideOutput, FromInt(1), FromInt(1)>>,
     <<LargeImmediate, FromInt(1), Zero>>}
    \cup {<<p, FromInt(7), Zero>> : p \in WordPrograms \cup OverflowPrograms
                                          \cup RelativePrograms
                                          \cup JumpPrograms}
    \cup {<<p, FromInt(7), b>> : p \in InputPrograms, b \in {Zero, FromInt(9)}}

Init ==
    /\ \E s \in Setups :
          LET new == Program_new(s[1], s[2], s[3])
          IN  /\ image = s[1]
              /\ memory = new.memory
              /\ first_input = new.first_input
              /\ second_input = new.second_input
              /\ current_input = new.current_input
              /\ pointer_idx = new.pointer_idx
              /\ relative_base = new.relative_base
    /\ pc = "idle"
    /\ ret = RetNew
    /\ output = <<>>
    /\ consumed = <<>>
    /\ steps = 0
    /\ IteratorOff
    /\ SearchOff

Next ==
    \/ RunProgram
    \/ SetInput
    \/ Add
    \/ Mul
    \/ Input
    \/ Output
    \/ JumpIfTrue
    \/ JumpIfFalse
    \/ LessThan
    \/ Equals
    \/ AdjustBase
    \/ Halt
    \/ ReturnErr
    \/ Panic

Spec == Init /\ [][Next]_vars

\* ------------------------------------------------------------------------
\* _q2: the amplifier search
\* ------------------------------------------------------------------------
amp_count == 5

\* amplifier programs: the value returned is written into the operand of
\* the opcode 4 that returns it
\* one round, returning phase + 2 * input
OneRound ==
    Image(<<3, 15, 3, 16, 1002, 16, 2, 16, 1, 15, 16, 13, 4, 0, 99, 0, 0>>)

\* two rounds, returning phase + 2 * input, then phase + input
TwoRounds ==
    Image(<<3, 27, 3, 28, 1002, 28, 2, 28, 1, 27, 28, 13, 4, 0,
            3, 28, 1, 27, 28, 21, 4, 0, 1105, 1, 26, 0, 99, 0, 0>>)

\* one round, returning -5 whatever the input
NegativeSignal == Image(<<104, -5, 99>>)

AmplifierPrograms ==
    {OneRound, TwoRounds, NegativeSignal,
     Image(<<99>>),                   \* halts before any output
     Image(<<104, 1, 42>>),           \* an invalid opcode in the second round
     Image(<<104, 1, 1105, 1, -1>>)}  \* a panic in the second round

\* _q2 called with one of the programs, inside get_permutations(amp_count)
InitSearch ==
    /\ \E mem \in AmplifierPrograms : image = mem
    /\ memory = <<>>
    /\ first_input = Zero
    /\ second_input = Zero
    /\ current_input = 1
    /\ pointer_idx = Zero
    /\ relative_base = Zero
    /\ pc = "idle"
    /\ ret = RetNew
    /\ output = <<>>
    /\ consumed = <<>>
    /\ steps = 0
    /\ perms = Permutations_new(amp_count)
    /\ item = [kind |-> "new", val |-> <<>>]
    /\ collected = <<>>
    /\ permutations = <<>>
    /\ Programs = <<>>
    /\ amp_idx = 0
    /\ output_signal = Zero
    /\ signal = Zero
    /\ max_signal = Zero
    /\ at = "perms"
    /\ resumes = <<>>
    /\ trials = <<>>

\* collect has its None: let permutations = ...; let mut max_signal = 0
GetPermutations ==
    /\ at = "perms"
    /\ Permutations_next(perms).item.kind = "none"
    /\ perms' = Permutations_next(perms).self
    /\ item' = None
    /\ permutations' = collected
    /\ max_signal' = Zero
    /\ at' = "for"
    /\ UNCHANGED <<collected, fields, pc, ret, output, consumed, image, steps,
                   Programs, amp_idx, output_signal, signal, resumes, trials>>

\* the for loop takes the next permutation: the locals of the trial and one
\* Program for each of its elements
ForNext ==
    /\ at = "for"
    /\ permutations # <<>>
    /\ amp_idx' = 0
    /\ output_signal' = Zero
    /\ signal' = Zero
    /\ Programs' = [k \in 1..Len(Head(permutations)) |->
                       Program_new(image, FromInt(Head(permutations)[k] + 5),
                                   Zero)]
    /\ permutations' = Tail(permutations)
    /\ at' = "loop"
    /\ resumes' = <<>>
    /\ output' = <<>>
    /\ consumed' = <<>>
    /\ steps' = 0
    /\ UNCHANGED <<fields, pc, ret, image, iterator, max_signal, trials>>

\* the for loop is over: Ok(max_signal as usize)
ReturnMax ==
    /\ at = "for"
    /\ permutations = <<>>
    /\ at' = "returned"
    /\ UNCHANGED <<fields, pc, ret, output, consumed, image, steps, iterator,
                   permutations, Programs, amp_idx, output_signal, signal,
                   max_signal, resumes, trials>>

\* the call of run_program without amp.set_input(input) before it
ResumeWithoutInput ==
    /\ at = "loop"
    /\ Store(Programs[amp_idx + 1])
    /\ pc' = "running"
    /\ at' = "call"
    /\ UNCHANGED <<ret, output, consumed, image, steps, iterator,
                   permutations, Programs, amp_idx, output_signal, signal,
                   max_signal, resumes, trials>>

\* let amp = &mut Programs[amp_idx]; amp.set_input(input); amp.run_program()
Resume ==
    /\ at = "loop"
    /\ Store(set_input(Programs[amp_idx + 1], signal))
    /\ pc' = "running"
    /\ at' = "call"
    /\ UNCHANGED <<ret, output, consumed, image, steps, iterator,
                   permutations, Programs, amp_idx, output_signal, signal,
                   max_signal, resumes, trials>>

Resumed == [amp |-> amp_idx, input |-> second_input, ret |-> ret]

\* the last value amplifier 4 returned in a trial, if it returned one
RECURSIVE LastOfLast(_, _)
LastOfLast(log, n) ==
    IF n = 0 THEN None
    ELSE IF log[n].amp = 4 /\ log[n].ret.kind = "some" THEN Some(log[n].ret.val)
    ELSE LastOfLast(log, n - 1)

Trial(log) ==
    [phases |-> [k \in 1..Len(Programs) |-> Programs[k].first_input],
     result |-> LastOfLast(log, Len(log))]

\* run_program returned Some(output_value)
ReturnedSome ==
    /\ at = "call"
    /\ pc = "idle"
    /\ ret.kind = "some"
    /\ Programs' = [Programs EXCEPT ![amp_idx + 1] = Self]
    /\ signal' = ret.val
    /\ output_signal' = IF amp_idx = 4 THEN ret.val ELSE output_signal
    /\ amp_idx' = (amp_idx + 1) % 5
    /\ resumes' = Append(resumes, Resumed)
    /\ at' = "loop"
    /\ UNCHANGED <<fields, pc, ret, output, consumed, image, steps, iterator,
                   permutations, max_signal, trials>>

\* run_program returned None: the trial is over
ReturnedNone ==
    /\ at = "call"
    /\ pc = "idle"
    /\ ret.kind = "none"
    /\ Programs' = [Programs EXCEPT ![amp_idx + 1] = Self]
    /\ max_signal' = IF BigLt(max_signal, output_signal)
                     THEN output_signal ELSE max_signal
    /\ resumes' = Append(resumes, Resumed)
    /\ trials' = Append(trials, Trial(Append(resumes, Resumed)))
    /\ at' = "for"
    /\ UNCHANGED <<fields, pc, ret, output, consumed, image, steps, iterator,
                   permutations, amp_idx, output_signal, signal>>

\* run_program returned Err: the `?` returns it from _q2
ReturnedErr ==
    /\ at = "call"
    /\ pc = "idle"
    /\ ret.kind = "err"
    /\ resumes' = Append(resumes, Resumed)
    /\ at' = "failed"
    /\ UNCHANGED <<fields, pc, ret, output, consumed, image, steps, iterator,
                   permutations, Programs, amp_idx, output_signal, signal,
                   max_signal, trials>>

NextSearch ==
    \/ NextSome
    \/ GetPermutations
    \/ ForNext
    \/ ReturnMax
    \/ Resume
    \/ Continue
    \/ Output
    \/ Halt
    \/ ReturnErr
    \/ Panic
    \/ ReturnedSome
    \/ ReturnedNone
    \/ ReturnedErr

SpecSearch == InitSearch /\ [][NextSearch]_vars

\* ------------------------------------------------------------------------
\* Properties
\* ------------------------------------------------------------------------
\* the instruction word under the pointer, while the loop runs
AtWord == pc = "running" /\ PointerInside(Self)
Word == At(memory, pointer_idx)
\* a word the integers of the model checker hold
SmallWord == AtWord /\ ~Word.neg /\ Len(Word.mag) <= 2

Returned == pc = "idle" /\ ret.kind # "new"
Halted == pc = "idle" /\ ret.kind = "none"

\* C1: the quine program, run until run_program returns None, returns its
\* own 16 integers in order and nothing else.
C1_Quine == (image = Quine /\ Halted) => output = Quine

\* what the program does return: sixteen times the operand of 204,-1
C1_QuineObserved ==
    (image = Quine /\ Halted) => output = [i \in 1..16 |-> FromInt(-1)]

\* the cell at a non-negative address of the logically infinite memory
Cell(mem, a) ==
    IF BigLt(a, FromInt(Len(mem))) THEN mem[ToInt(a) + 1] ELSE Zero

\* an operand resolved through an addressing mode
Resolved(mem, base, parameter_form, operand) ==
    CASE parameter_form = Position  -> Cell(mem, operand)
      [] parameter_form = Immediate -> operand
      [] parameter_form = Relative  -> Cell(mem, BigAdd(base, operand))

\* C2: an opcode-4 instruction returns its operand resolved through the
\* addressing mode decoded for it: mem[operand] for Position, the operand for
\* Immediate, mem[relative_base + operand] for Relative.
C2_OutputResolvesMode ==
    [][(AtWord /\ Opcode = 4 /\ ret'.kind = "some" /\ output' # output
        /\ (Decode(Self).parameters[1] = Position => ~Fetch(Self, 1).val.neg)
        /\ (Decode(Self).parameters[1] = Relative =>
               ~BigAdd(relative_base, Fetch(Self, 1).val).neg))
       => ret'.val = Resolved(memory, relative_base,
                              Decode(Self).parameters[1],
                              Fetch(Self, 1).val)]_vars

\* C3: the program 1102,34915192,34915192,7,4,7,99,0 run to its halt returns
\* exactly one value, the 16-digit product 34915192 * 34915192.
C3_WideOutput ==
    (image = WideOutput /\ Halted) =>
        /\ Len(output) = 1
        /\ Len(ToDigits(output[1].mag)) = 16
        /\ output[1] = BigMul(FromInt(34915192), FromInt(34915192))

\* C4: for 104,1125899906842624,99 the first call of run_program returns
\* Some(1125899906842624), the second returns None, and memory keeps its
\* three cells throughout.
C4_LargeImmediate ==
    image = LargeImmediate =>
        /\ memory = image
        /\ pc # "panicked"
        /\ ret \in {RetNew, RetSome(LargeValue), RetNone}
        /\ (steps = 0) = (ret = RetNew /\ output = <<>>)
        /\ (steps >= 1 => output = <<LargeValue>>)
        /\ (ret = RetSome(LargeValue)) = (steps = 1)
        /\ (ret = RetNone) = (steps = 2)

C4_Witness ==
    /\ image = LargeImmediate
    /\ Halted
    /\ output = <<LargeValue>>
    /\ Len(memory) = 3

\* one uninterrupted execution of n iterations from self: an output does not
\* return, and the k-th execution of opcode 3 reads the k-th value of inputs
Fed(self, inputs) ==
    IF inputs # <<>> /\ self.current_input = 2
    THEN [self EXCEPT !.second_input = Head(inputs)]
    ELSE self

Rest(inputs, o) ==
    IF OpcodeOf(PointerInside(o), Decode(o)) = 3 THEN Tail(inputs) ELSE inputs

RECURSIVE Uninterrupted(_, _, _)
Uninterrupted(self, inputs, n) ==
    IF n = 0 THEN {[self |-> self, outs |-> <<>>]}
    ELSE UNION {
           IF o.kind \in {"continue", "some"}
           THEN {[self |-> r.self,
                  outs |-> (IF o.kind = "some" THEN <<o.val>> ELSE <<>>)
                           \o r.outs]
                   : r \in Uninterrupted(o.self, rest, n - 1)}
           ELSE {[self |-> o.self, outs |-> <<>>]}
           : o \in Exec(Fed(self, inputs)), rest \in {Rest(inputs, self)} }

\* the values returned so far are the outputs of the uninterrupted execution
SameAsUninterrupted ==
    Returned =>
        \E r \in Uninterrupted(Program_new(image, first_input, Zero),
                               consumed, steps) :
            /\ r.outs = output
            /\ r.self.memory = memory
            /\ r.self.pointer_idx = pointer_idx
            /\ r.self.relative_base = relative_base
            /\ r.self.current_input = current_input

\* C5: run_program returns Some(v) only by executing one opcode-4
\* instruction, with the pointer already 2 past it, and None only at opcode
\* 99; between two calls memory, pointer, relative base and input cursor stay
\* as left, and the values returned by successive calls are the outputs of
\* one uninterrupted execution.
C5_SuspendResume ==
    /\ []SameAsUninterrupted
    /\ [][/\ (output' # output \/ (ret' # ret /\ ret'.kind = "some")) =>
                /\ AtWord /\ Opcode = 4
                /\ ret'.kind = "some"
                /\ output' = Append(output, ret'.val)
                /\ pointer_idx' = BigAdd(pointer_idx, FromInt(2))
                /\ pc' = "idle"
          /\ (ret' # ret /\ ret'.kind = "none") => (AtWord /\ Opcode = 99)
          /\ pc = "idle" =>
                UNCHANGED <<memory, pointer_idx, relative_base,
                            current_input>>]_vars

C5_Witness ==
    /\ image = Quine
    /\ Len(output) = 3
    /\ pc = "running"
    /\ steps = 12

\* C6: the first opcode-3 instruction ever executed stores the first input;
\* every later one stores the current second input, which is the value of
\* the most recent set_input call or the constructor's second input.
C6_InputCursor ==
    [][/\ (AtWord /\ Opcode = 3 /\ steps' # steps /\ pc' = "running") =>
             /\ Cell(memory', AsUsize(Fetch(Self, 1).val)) =
                   IF consumed = <<>> THEN first_input ELSE second_input
             /\ consumed' = Append(consumed,
                   IF consumed = <<>> THEN first_input ELSE second_input)
       /\ first_input' = first_input
       /\ second_input' # second_input =>
             (pc = "idle" /\ second_input' \in InputValues)
       /\ consumed' = consumed \/ (AtWord /\ Opcode = 3)]_vars

C6_Witness ==
    /\ Len(consumed) = 3
    /\ first_input = FromInt(7)
    /\ consumed[1] = FromInt(7)
    /\ consumed[2] = FromInt(9)
    /\ consumed[3] = FromInt(5)

\* C7: when the cell under the pointer holds 99, run_program returns None
\* and leaves memory, pointer, relative base and input cursor unchanged.
C7_Halting ==
    [][(AtWord /\ Word = FromInt(99)) =>
          /\ ret' = RetNone
          /\ pc' = "idle"
          /\ UNCHANGED <<memory, pointer_idx, relative_base, current_input,
                         first_input, second_input, output>>]_vars

C7_Witness ==
    /\ Halted
    /\ PointerInside(Self)
    /\ Word = FromInt(99)
    /\ pointer_idx # Zero
    /\ Len(memory) > Len(image)

\* the decimal digits of a natural number are all 0, 1 or 2
RECURSIVE ModeDigitsOnly(_)
ModeDigitsOnly(m) ==
    m = 0 \/ (m % 10 \in {0, 1, 2} /\ ModeDigitsOnly(m \div 10))

\* the i-th least significant decimal digit of m
Digit(m, i) == (m \div Pow10(i - 1)) % 10

ParameterCount(opcode) ==
    CASE opcode \in {1, 2, 7, 8} -> 3
      [] opcode \in {3, 4, 9}    -> 1
      [] opcode \in {5, 6}       -> 2
      [] opcode = 99             -> 0

ModeNamed(d) ==
    CASE d = 0 -> Position [] d = 1 -> Immediate [] d = 2 -> Relative

\* C8: a non-negative word n with a valid opcode n mod 100 and mode digits in
\* {0,1,2} decodes to that opcode and to 3 parameters for opcodes 1,2,7,8, 1
\* for 3,4,9, 2 for 5,6 and 0 for 99, parameter i being the mode of the i-th
\* least significant digit of n div 100, Position when the digit is absent.
C8_DecoderShape ==
    (/\ SmallWord
     /\ ToInt(Word) % 100 \in ValidOpcodes
     /\ ModeDigitsOnly(ToInt(Word) \div 100))
    => /\ Decode(Self).ok
       /\ Decode(Self).opcode = ToInt(Word) % 100
       /\ Len(Decode(Self).parameters) = ParameterCount(ToInt(Word) % 100)
       /\ \A i \in 1..ParameterCount(ToInt(Word) % 100) :
             Decode(Self).parameters[i] =
                 ModeNamed(Digit(ToInt(Word) \div 100, i))

C8_Witness ==
    /\ SmallWord
    /\ Word = FromInt(1201)
    /\ Decode(Self).parameters = <<Relative, Immediate, Position>>

\* C9: a non-negative word whose opcode n mod 100 is not in
\* {1,...,9,99} makes run_program return Err at once: memory, pointer,
\* relative base and input cursor stay and no value is returned as output.
C9_InvalidOpcode ==
    [][(SmallWord /\ ToInt(Word) % 100 \notin ValidOpcodes) =>
          /\ ret' = RetErr
          /\ pc' = "idle"
          /\ UNCHANGED <<memory, pointer_idx, relative_base, current_input,
                         first_input, second_input, output, consumed>>]_vars

C9_Witness ==
    /\ pc = "idle"
    /\ ret = RetErr
    /\ PointerInside(Self)
    /\ Word = FromInt(1042)
    /\ memory = image

\* C10, as claimed: a word with a valid opcode and a digit outside {0,1,2} at
\* any position of n div 100 makes run_program return Err without executing
\* the instruction.
C10_AnyDigit ==
    [][(/\ SmallWord
        /\ ToInt(Word) % 100 \in ValidOpcodes
        /\ ~ModeDigitsOnly(ToInt(Word) \div 100)) =>
          /\ ret' = RetErr
          /\ UNCHANGED <<memory, pointer_idx, relative_base, current_input,
                         output>>]_vars

\* a word of fewer than five digits, of either sign
ShortWord == AtWord /\ Len(Word.mag) <= 1

\* the opcode and the three lowest digits above it of a short word n taken
\* as the unsigned 64-bit number n as usize: 2^64 + n for a negative n, where
\* 2^64 = 184467440737095516 * 100 + 16
UnsignedOpcode(n) == IF n >= 0 THEN n % 100 ELSE (16 + n) % 100
UnsignedModes(n) ==
    IF n >= 0 THEN n \div 100 ELSE 516 + ((16 + n) \div 100)

\* C10, amended: a word n with a valid opcode, taken as the unsigned number
\* the decoder receives, makes run_program return Err without executing the
\* instruction exactly when one of the digits of n div 100 that stand for a
\* parameter of the opcode is outside {0,1,2}; the digits above them are
\* dropped unread.
C10_ParameterDigit ==
    [][(ShortWord /\ UnsignedOpcode(ToInt(Word)) \in ValidOpcodes) =>
          IF \E i \in 1..ParameterCount(UnsignedOpcode(ToInt(Word))) :
                 Digit(UnsignedModes(ToInt(Word)), i) \notin {0, 1, 2}
          THEN /\ ~Decode(Self).ok
               /\ Decode(Self).err = "Cannot read parameter digit"
               /\ ret' = RetErr
               /\ pc' = "idle"
               /\ UNCHANGED <<memory, pointer_idx, relative_base,
                              current_input, output>>
          ELSE Decode(Self).ok /\ ret' # RetErr]_vars

C10_Witness ==
    /\ pc = "idle"
    /\ ret = RetErr
    /\ PointerInside(Self)
    /\ Word = FromInt(3002)
    /\ memory = image

\* the k-th operand word of the instruction under the pointer
Operand(k) == Cell(memory, BigAdd(pointer_idx, FromInt(k)))

\* the addresses the instruction under the pointer reads through
\* get_parameter with a Position or Relative parameter
ReadAddresses ==
    {IF Decode(Self).parameters[k] = Relative
     THEN BigAdd(relative_base, Operand(k)) ELSE Operand(k)
       : k \in {j \in 1..InputCount(Opcode) :
                    Decode(Self).parameters[j] # Immediate}}

\* the address the instruction under the pointer hands to set_parameter
WriteAddresses ==
    CASE Opcode \in {1, 2, 7, 8} -> {Operand(3)}
      [] Opcode = 3              -> {Operand(1)}
      [] OTHER                   -> {}

\* C11: memory never gets shorter; an instruction that reads or writes at an
\* address at or beyond the length leaves memory exactly long enough to hold
\* the highest address it touched; every new cell other than the one written
\* is 0, and no old cell changes other than the one written.
C11_MemoryGrowth ==
    [][/\ Len(memory') >= Len(memory)
       /\ \A i \in 1..Len(memory) :
             memory'[i] # memory[i] =>
                 pc = "running" /\ WriteAddresses = {FromInt(i - 1)}
       /\ \A i \in (Len(memory) + 1)..Len(memory') :
             memory'[i] # Zero =>
                 pc = "running" /\ WriteAddresses = {FromInt(i - 1)}
       /\ (pc = "running" /\ pc' # "panicked") =>
             /\ \A a \in ReadAddresses \cup WriteAddresses :
                   BigLt(a, FromInt(Len(memory')))
             /\ Len(memory') > Len(memory) =>
                   FromInt(Len(memory') - 1) \in
                       ReadAddresses \cup WriteAddresses]_vars

\* a write three cells beyond the end: the cells in between are 0
C11_Witness ==
    /\ Len(memory) = Len(image) + 4
    /\ memory[Len(memory)] # Zero
    /\ \A i \in (Len(image) + 1)..(Len(memory) - 1) : memory[i] = Zero
    /\ \A i \in 1..Len(image) : memory[i] = image[i]

\* the pointer stands at or beyond the end of memory, within the bound
PointerBeyond ==
    /\ pc = "running"
    /\ ~PointerInside(Self)
    /\ BigLt(pointer_idx, FromInt(MaxMem))

\* the instruction under the pointer is an opcode 3 in the last cell, so
\* that its operand word lies beyond the end
OperandBeyond ==
    /\ AtWord
    /\ Opcode = 3
    /\ ToInt(pointer_idx) + 1 = Len(memory)

\* C14: a fetch of the instruction word at a pointer at or beyond the end of
\* memory grows memory with zeros up to the pointer and reads 0 (which is no
\* opcode, so that the call returns Err), and a fetch of an operand word
\* beyond the end reads 0 and the instruction goes on; neither aborts the run.
C14_FetchGrows ==
    [][/\ PointerBeyond =>
             /\ pc' = "idle"
             /\ ret' = RetErr
             /\ memory' = Resize(memory, ToInt(pointer_idx) + 1, Zero)
       /\ OperandBeyond =>
             /\ pc' # "panicked"
             /\ Len(memory') >= Len(memory) + 1
             /\ memory'[Len(memory) + 1] = Zero]_vars

\* what the code does: both fetches index the vector and panic
C14_FetchPanics ==
    [][(PointerBeyond \/ OperandBeyond) =>
          pc' = "panicked" /\ memory' = memory]_vars

\* which operand of the instruction under the pointer names the target
WriteOperand == IF Opcode = 3 THEN 1 ELSE 3

\* the address the target operand stands for under its addressing mode
WriteTarget ==
    IF Decode(Self).parameters[WriteOperand] = Relative
    THEN BigAdd(relative_base, Operand(WriteOperand))
    ELSE Operand(WriteOperand)

\* C15: an instruction with opcode 1, 2, 3, 7 or 8 that completes stores at
\* the target operand taken as an address when the operand's mode is
\* Position and at relative_base + operand when it is Relative: every other
\* cell keeps its value.
C15_WriteAddress ==
    [][(/\ AtWord
        /\ Opcode \in {1, 2, 3, 7, 8}
        /\ Decode(Self).parameters[WriteOperand] \in {Position, Relative}
        /\ pc' = "running")
       => /\ BigLt(WriteTarget, FromInt(Len(memory')))
          /\ \A i \in 1..Len(memory') :
                FromInt(i - 1) # WriteTarget =>
                    memory'[i] = Cell(memory, FromInt(i - 1))]_vars

\* what the code does: the target is the operand itself under every mode
C15_WriteOperandAsAddress ==
    [][(AtWord /\ Opcode \in {1, 2, 3, 7, 8} /\ pc' = "running")
       => /\ BigLt(Operand(WriteOperand), FromInt(Len(memory')))
          /\ \A i \in 1..Len(memory') :
                FromInt(i - 1) # Operand(WriteOperand) =>
                    memory'[i] = Cell(memory, FromInt(i - 1))]_vars

\* the remainder of a negative n by 100 that rounds toward zero
TruncatedRemainder(n) == 0 - ((0 - n) % 100)

\* a negative word that is no opcode under either reading of n mod 100
NegativeNoOpcode ==
    /\ ShortWord
    /\ Word.neg
    /\ TruncatedRemainder(ToInt(Word)) \notin ValidOpcodes
    /\ ToInt(Word) % 100 \notin ValidOpcodes

\* C16: a negative word under the pointer whose remainder by 100, truncated
\* or floored, is no opcode makes run_program return Err: it is not executed
\* as a halt or as any other instruction.
C16_NegativeWord ==
    [][NegativeNoOpcode =>
          /\ pc' = "idle"
          /\ ret' = RetErr
          /\ UNCHANGED <<memory, pointer_idx, relative_base, output>>]_vars

\* what the code does with -17 and -412: the cast to usize turns them into
\* 2^64 - 17 and 2^64 - 412, which end in 99 and in 204
C16_NegativeWordObserved ==
    [][(AtWord /\ Word.neg) =>
          CASE Word = FromInt(-17)  -> ret' = RetNone
            [] Word = FromInt(-412) -> ret' = RetSome(FromInt(4))
            [] OTHER                -> ret' = RetErr]_vars

\* the i64 an addition leaves when it does not panic
I64(x) == IF FitsI64(x) THEN x ELSE Wrap64(x)

\* the address parameter k of the instruction under the pointer stands for,
\* as the i64 the instruction computes
ParamAddress(k) ==
    IF Decode(Self).parameters[k] = Relative
    THEN I64(BigAdd(relative_base, Operand(k)))
    ELSE Operand(k)

\* the instruction under the pointer reads or writes at a negative address
NegativeAccess ==
    /\ AtWord
    /\ \/ \E k \in 1..InputCount(Opcode) :
             /\ Decode(Self).parameters[k] # Immediate
             /\ ParamAddress(k).neg
       \/ \E a \in WriteAddresses : a.neg

\* the value parameter k of the instruction under the pointer reads
ParamValue(k) ==
    IF Decode(Self).parameters[k] = Immediate
    THEN Operand(k) ELSE Cell(memory, ParamAddress(k))

\* the instruction under the pointer is a jump whose condition holds
JumpTaken ==
    /\ AtWord
    /\ Opcode \in {5, 6}
    /\ ~NegativeAccess
    /\ (ParamValue(1) # Zero) = (Opcode = 5)

\* C17: an instruction with a Position or Relative read or a write at an
\* address that is negative as a signed 64-bit integer, and a jump to a
\* negative target, end the run: the read or write panics before any cell
\* is read as the value or assigned and nothing is returned; after the jump
\* the pointer is outside every memory, and the fetch at it panics with the
\* program as it was.
C17_NegativeAddress ==
    [][/\ NegativeAccess =>
             /\ pc' = "panicked"
             /\ UNCHANGED <<ret, output, pointer_idx, relative_base>>
             /\ \A i \in 1..Len(memory') :
                   memory'[i] = Cell(memory, FromInt(i - 1))
       /\ (JumpTaken /\ ParamValue(2).neg) =>
             /\ pc' \in {"running", "panicked"}
             /\ pc' = "running" => BigLe(Two63, pointer_idx')
             /\ UNCHANGED <<ret, output>>
       /\ (pc = "running" /\ BigLe(Two63, pointer_idx)) =>
             /\ pc' = "panicked"
             /\ UNCHANGED <<fields, ret, output>>]_vars

\* a write at -1 has panicked
C17_Witness ==
    /\ pc = "panicked"
    /\ Opcode = 1
    /\ WriteAddresses = {FromInt(-1)}
    /\ memory = image

\* a jump to -1 has been made and the fetch after it has panicked
C17_JumpWitness ==
    /\ pc = "panicked"
    /\ pointer_idx = USizeMax
    /\ steps = 2

\* the instruction under the pointer runs to its end in this step
Completes ==
    /\ AtWord
    /\ \/ pc' = "running"
       \/ Opcode = 4 /\ pc' = "idle" /\ ret'.kind = "some"

\* C18: an instruction that runs to its end moves the pointer by 4 for
\* opcodes 1, 2, 7 and 8 and by 2 for opcodes 3, 4 and 9; opcode 5 sets it to
\* the value of its second parameter exactly when the value of its first is
\* not 0, opcode 6 exactly when it is 0, and otherwise they move it by 3 (a
\* negative target leaves the pointer outside memory, see C17).
C18_PointerAdvance ==
    [][Completes =>
          CASE Opcode \in {1, 2, 7, 8} ->
                  pointer_idx' = BigAdd(pointer_idx, FromInt(4))
            [] Opcode \in {3, 4, 9} ->
                  pointer_idx' = BigAdd(pointer_idx, FromInt(2))
            [] Opcode \in {5, 6} ->
                  IF (ParamValue(1) # Zero) = (Opcode = 5)
                  THEN IF ParamValue(2).neg
                       THEN BigLe(Two63, pointer_idx')
                       ELSE pointer_idx' = ParamValue(2)
                  ELSE pointer_idx' = BigAdd(pointer_idx, FromInt(3))
            [] OTHER -> FALSE]_vars

\* 1105,4,6 has jumped to 6
C18_Witness ==
    /\ image = WordProgram(1105, 4, 6, 5)
    /\ pc = "running"
    /\ steps = 1
    /\ pointer_idx = FromInt(6)

\* the value opcodes 1, 2, 7 and 8 compute from what their parameters read
ResultValue ==
    CASE Opcode = 1 -> I64(BigAdd(ParamValue(1), ParamValue(2)))
      [] Opcode = 2 -> I64(BigMul(ParamValue(1), ParamValue(2)))
      [] Opcode = 7 -> IF BigLt(ParamValue(1), ParamValue(2)) THEN One ELSE Zero
      [] Opcode = 8 -> IF ParamValue(1) = ParamValue(2) THEN One ELSE Zero

\* C20: the relative base is 0 in a new program and changes only in an
\* opcode-9 instruction, which adds the value of its parameter to it; all
\* other instructions, set_input, and the calls that return None or Err
\* leave it as it is; and a Relative parameter reads the cell at the
\* current relative base plus its operand.
C20_RelativeBase ==
    /\ [](ret = RetNew /\ pc = "idle" => relative_base = Zero)
    /\ [][/\ relative_base' # relative_base =>
                AtWord /\ Opcode = 9 /\ pc' = "running"
          /\ (Completes /\ Opcode = 9) =>
                relative_base' = I64(BigAdd(relative_base, ParamValue(1)))
          /\ (Completes /\ Opcode \in {1, 2, 7, 8}) =>
                memory'[ToInt(Operand(3)) + 1] = ResultValue]_vars

\* two opcode-9 instructions, then an addition of two Relative parameters
C20_Witness ==
    /\ image = TwoBases
    /\ Halted
    /\ relative_base = FromInt(5)
    /\ memory[10] = FromInt(11)

RECURSIVE Factorial(_)
Factorial(n) == IF n = 0 THEN 1 ELSE n * Factorial(n - 1)

\* the size the iterator was made for
Size == Len(perms.idxs)

IsPermutation(s, k) ==
    /\ Len(s) = k
    /\ {s[j] : j \in 1..k} = 0..(k - 1)

\* C19: for each size k, every sequence next returns is a permutation of
\* 0..k-1, no two of them are equal, the call after the k!-th returns None
\* and so does every call after that, so that collecting the iterator, as
\* get_permutations(k) does, gives these k! sequences.
C19_Permutations ==
    /\ \A a \in 1..Len(collected) : IsPermutation(collected[a], Size)
    /\ \A a \in 1..(Len(collected) - 1) :
          collected[a] # collected[Len(collected)]
    /\ Len(collected) <= Factorial(Size)
    /\ item.kind = "some" => item.val = collected[Len(collected)]
    /\ Len(collected) = Factorial(Size) =>
          Permutations_next(perms).item = None
    /\ item = None =>
          /\ Len(collected) = Factorial(Size)
          /\ Permutations_next(perms).self = perms
          /\ \A a \in 1..Len(collected) : \A b \in 1..Len(collected) :
                a # b => collected[a] # collected[b]

\* the iterator of size 5 has returned its 120 sequences, then None
C19_Witness ==
    /\ Size = 5
    /\ item = None
    /\ Len(collected) = 120

\* _q2 has returned Ok(max_signal as usize), and in every trial amplifier 4
\* returned a value
SearchReturned ==
    /\ at = "returned"
    /\ \A t \in 1..Len(trials) : trials[t].result.kind = "some"

\* C12: the value _q2 returns is the result of one of the trials and no
\* trial has a greater result, the result of a trial being the last value
\* amplifier 4 returned before the trial ended; and there has been a trial
\* for each of the 120 permutations.
C12_SearchMaximum ==
    SearchReturned =>
        /\ Len(trials) = 120
        /\ \E t \in 1..Len(trials) :
              trials[t].result.val = AsUsize(max_signal)
        /\ \A t \in 1..Len(trials) :
              BigLe(trials[t].result.val, AsUsize(max_signal))

\* what the code returns: max_signal starts at 0, so a result below 0 never
\* replaces it
C12_SearchMaximumOrZero ==
    SearchReturned =>
        /\ Len(trials) = 120
        /\ \/ max_signal = Zero
           \/ \E t \in 1..Len(trials) : trials[t].result.val = max_signal
        /\ BigLe(Zero, max_signal)
        /\ \A t \in 1..Len(trials) : BigLe(trials[t].result.val, max_signal)
        /\ image = OneRound => max_signal = FromInt(253)
        /\ image = TwoRounds => max_signal = FromInt(288)
        /\ image = NegativeSignal => max_signal = Zero

\* the phase settings of the five amplifiers of the trial under way
Phases == [k \in 1..Len(Programs) |-> Programs[k].first_input]

\* the calls of run_program of a trial went round the amplifiers from
\* amplifier 0, the first with input 0 and each later one with the value
\* the call before it returned, and none but the last returned other than
\* Some
Chained(log) ==
    \A j \in 1..Len(log) :
        /\ log[j].amp = (j - 1) % 5
        /\ log[j].input = IF j = 1 THEN Zero ELSE log[j - 1].ret.val
        /\ j < Len(log) => log[j].ret.kind = "some"

\* C13: in a trial the five amplifiers have the phase settings 5..9, each
\* once; run_program is called on one amplifier at a time, in the order
\* 0,1,2,3,4,0,..., the first call with second input 0 and every later call
\* with the value the call before it returned; and the call that returns
\* None (or Err) is the last call of the trial.
C13_Chaining ==
    /\ [](/\ at \in {"loop", "call"} =>
               /\ Len(Programs) = 5
               /\ {Phases[k] : k \in 1..5} = {FromInt(n) : n \in 5..9}
          /\ Chained(resumes)
          /\ at = "loop" =>
               /\ amp_idx = Len(resumes) % 5
               /\ signal = IF resumes = <<>> THEN Zero
                           ELSE resumes[Len(resumes)].ret.val
               /\ resumes # <<>> => resumes[Len(resumes)].ret.kind = "some"
          /\ at = "call" =>
               /\ amp_idx = Len(resumes) % 5
               /\ first_input = Phases[amp_idx + 1]
               /\ second_input = signal
          /\ at = "returned" =>
               /\ Len(trials) = 120
               /\ \A a \in 1..120 : \A b \in 1..120 :
                     a # b => trials[a].phases # trials[b].phases)
    /\ [][/\ (pc # "running" /\ pc' = "running") =>
                /\ at = "loop"
                /\ memory' = Programs[amp_idx + 1].memory
                /\ pointer_idx' = Programs[amp_idx + 1].pointer_idx
                /\ second_input' = signal
          /\ (at = "call" /\ pc = "idle" /\ ret.kind # "some") =>
                at' \in {"for", "failed"}
          /\ (at = "call" /\ pc = "idle" /\ ret.kind = "some") =>
                /\ at' = "loop"
                /\ signal' = ret.val
                /\ amp_idx' = (amp_idx + 1) % 5
                /\ Programs'[amp_idx + 1] = Self]_vars

\* a trial of two rounds has ended with the None of amplifier 0
C13_Witness ==
    /\ image = TwoRounds
    /\ at = "for"
    /\ Len(resumes) = 11
    /\ resumes[11].ret = RetNone
    /\ resumes[10].amp = 4

====
